---- MODULE Spec2Model ----
(***************************************************************************)
(* State machine of the design-canvas editor held by the App component     *)
(* (src/App.tsx): the element collection, the selection, the undo/redo     *)
(* history with its cursor, and the commands that change them.             *)
(*                                                                         *)
(* Every handler of App.tsx reads `elements`, `selectedId`, `history` and  *)
(* `historyIndex` from the render it was created in.  The pure operators   *)
(* below therefore take that render `r` as a parameter and return the      *)
(* values handed to the React setters.  Handlers passed as props are       *)
(* re-created on every render, so the actions apply them to the current    *)
(* render; the keydown handler is re-bound only when selectedId,           *)
(* historyIndex or history change, so it carries its own captured          *)
(* `elements` (keyElements).                                               *)
(***************************************************************************)
EXTENDS Integers, Sequences, FiniteSets, TLC

VARIABLES
  elements,      \* useState<CanvasElement[]>      (App.tsx:15)
  selectedId,    \* useState<string | null>        (App.tsx:16)
  history,       \* useState<CanvasElement[][]>    (App.tsx:17)
  historyIndex,  \* useState(-1), 0-based cursor   (App.tsx:18)
  mounted,       \* the mount effects have run     (App.tsx:31-35)
  keyElements,   \* `elements` captured by the bound keydown handler (App.tsx:122-142)
  nextId,        \* number of generateId() calls so far
  nOps,          \* history variable: committing operations performed so far
  nCommits,      \* history variable: how many of them called addToHistory
  nUpdates,      \* history variable: state updates made without a commit so far
                 \* (updateElement and setSelectedId calls)
  lastOp,        \* history variable: the last command that acted
  captured       \* the render whose handlers a caller still holds, if any

vars == <<elements, selectedId, history, historyIndex, mounted, keyElements,
          nextId, nOps, nCommits, nUpdates, lastOp, captured>>

-----------------------------------------------------------------------------
(* Bounds of the exploration *)

MaxOps == 3        \* committing operations per run
MaxUpdates == 1    \* uncommitted updates (updateElement, setSelectedId) per run
MaxIds == 2        \* generateId calls per run

(* Values *)

NoSel == 0         \* selectedId === null
NoArg == 0         \* deleteElement() called without a string argument
EmptyId == -2      \* the id "": a string, and falsy
NoNum == -1        \* a numeric field the payload does not carry
Undef == "undefined"   \* a string field that is not set

TEXT == "text"     \* ElementType.TEXT
SHAPE == "shape"   \* ElementType.SHAPE
IMAGE == "image"   \* any other ElementType
RECTANGLE == "rectangle"   \* ShapeType.RECTANGLE
CIRCLE == "circle"         \* some other ShapeType
DefaultBackground == "#94a3b8"
DefaultColor == "#1e293b"

NumFields == {"id", "x", "y", "width", "height", "rotation", "zIndex", "opacity"}
StrFields == {"type", "backgroundColor", "shapeType", "color"}
Fields == NumFields \cup StrFields

\* A payload / Partial<CanvasElement>: a value for some of the fields.
NoPayload ==
  [id |-> NoNum, x |-> NoNum, y |-> NoNum, width |-> NoNum, height |-> NoNum,
   rotation |-> NoNum, zIndex |-> NoNum, opacity |-> NoNum,
   type |-> Undef, backgroundColor |-> Undef, shapeType |-> Undef, color |-> Undef]

Has(p, f) == IF f \in NumFields THEN p[f] # NoNum ELSE p[f] # Undef

\* JavaScript truthiness of payload[f] for the string fields tested by addElement
Truthy(p, f) == Has(p, f) /\ p[f] # ""

\* { ...base, ...p }
Spread(base, p) == [f \in Fields |-> IF Has(p, f) THEN p[f] ELSE base[f]]

ElementTypes == {TEXT, SHAPE, IMAGE}

AddPayloads ==
  { NoPayload,
    [NoPayload EXCEPT !.shapeType = CIRCLE],
    [NoPayload EXCEPT !.backgroundColor = "#ff0000"],
    [NoPayload EXCEPT !.color = "#0000ff"],
    [NoPayload EXCEPT !.zIndex = 5],
    [NoPayload EXCEPT !.backgroundColor = "#ff0000", !.shapeType = CIRCLE] }

\* the (type, payload) pairs addElement is called with in Spec
AddInputs == { <<SHAPE, NoPayload>> }

UpdatePayloads ==
  { [NoPayload EXCEPT !.x = 250] }

\* updates that also carry the identifying fields
WideUpdatePayloads ==
  UpdatePayloads \cup { [NoPayload EXCEPT !.id = 1], [NoPayload EXCEPT !.type = TEXT] }

\* JavaScript truthiness of an id or of selectedId
TruthyId(id) == id # NoSel /\ id # EmptyId

\* generateId() after n earlier calls: Math.random().toString(36).substr(2, 9)
\* is some base-36 string of at most 9 characters, fixed by the random number
\* alone.  It can be the empty string (Math.random() = 0), a string that is
\* already in use (1 .. n) or one that is not (n + 1; the strings not yet in
\* use are interchangeable).
generateId(n) == {EmptyId} \cup (1 .. (n + 1))

\* id arguments of the commands: every string generateId can have returned
\* so far and one it has not
IdArgs == generateId(nextId)

-----------------------------------------------------------------------------
(* Pure parts of the handlers, as functions of the render they close over *)

Render ==
  [elements |-> elements, selectedId |-> selectedId,
   history |-> history, historyIndex |-> historyIndex]

\* the render the bound keydown handler closes over
KeyRender ==
  [elements |-> keyElements, selectedId |-> selectedId,
   history |-> history, historyIndex |-> historyIndex]

Ids(els) == { els[i].id : i \in 1 .. Len(els) }

\* elements.find(el => el.id === id): index of the first match, 0 if none
FindIndex(els, id) ==
  IF id \in Ids(els)
  THEN CHOOSE i \in 1 .. Len(els) :
         els[i].id = id /\ \A j \in 1 .. (i - 1) : els[j].id # id
  ELSE 0

\* elements.filter(el => el.id !== targetId)
RECURSIVE Filter(_, _)
Filter(els, targetId) ==
  IF els = <<>> THEN <<>>
  ELSE IF Head(els).id # targetId
       THEN <<Head(els)>> \o Filter(Tail(els), targetId)
       ELSE Filter(Tail(els), targetId)

\* mutant: the redo tail is kept (no slice before the push)
addToHistory_KeepsTail(r, newElements) ==
  LET newHistory == Append(r.history, newElements)
  IN  [history |-> newHistory, historyIndex |-> Len(newHistory) - 1]

\* mutant: the slice stops one short and drops the current snapshot
addToHistory_SliceShort(r, newElements) ==
  LET newHistory == Append(SubSeq(r.history, 1, r.historyIndex), newElements)
  IN  [history |-> newHistory, historyIndex |-> Len(newHistory) - 1]

\* mutant: the slice starts at 1 and drops the first snapshot
addToHistory_SliceFromOne(r, newElements) ==
  LET newHistory == Append(SubSeq(r.history, 2, r.historyIndex + 1), newElements)
  IN  [history |-> newHistory, historyIndex |-> Len(newHistory) - 1]

addToHistory(r, newElements) ==
  LET newHistory == Append(SubSeq(r.history, 1, r.historyIndex + 1), newElements)
  IN  [history |-> newHistory, historyIndex |-> Len(newHistory) - 1]

\* mutant: the undo button is also enabled on the first snapshot
canUndo_AtStart(r) == r.historyIndex >= 0

canUndo(r) == r.historyIndex > 0
canRedo(r) == r.historyIndex < Len(r.history) - 1

\* state after a confirmed handleUndo
handleUndo(r) ==
  [r EXCEPT !.historyIndex = r.historyIndex - 1,
            !.elements = r.history[(r.historyIndex - 1) + 1]]

\* mutant: the cursor moves but the snapshot under the old cursor is restored
handleRedo_OldSnapshot(r) ==
  [r EXCEPT !.historyIndex = r.historyIndex + 1,
            !.elements = r.history[r.historyIndex + 1]]

\* state after a confirmed handleRedo
handleRedo(r) ==
  [r EXCEPT !.historyIndex = r.historyIndex + 1,
            !.elements = r.history[(r.historyIndex + 1) + 1]]

newElementOf(r, id, type, payload) ==
  LET base == [id |-> id, type |-> type, x |-> 200, y |-> 200,
               width |-> IF type = TEXT THEN 300 ELSE 200,
               height |-> IF type = TEXT THEN 100 ELSE 200,
               rotation |-> 0, zIndex |-> Len(r.elements) + 1, opacity |-> 1,
               backgroundColor |-> Undef, shapeType |-> Undef, color |-> Undef]
      e0 == Spread(base, payload)
      e1 == IF type = SHAPE /\ ~Truthy(payload, "backgroundColor")
            THEN [e0 EXCEPT !.backgroundColor = DefaultBackground,
                            !.shapeType = RECTANGLE]
            ELSE e0
  IN  IF type = TEXT /\ ~Truthy(payload, "color")
      THEN [e1 EXCEPT !.color = DefaultColor]
      ELSE e1

addElement(r, id, type, payload) ==
  LET newElement == newElementOf(r, id, type, payload)
      newElements == Append(r.elements, newElement)
      h == addToHistory(r, newElements)
  IN  [elements |-> newElements, selectedId |-> newElement.id,
       history |-> h.history, historyIndex |-> h.historyIndex]

\* mutant: every update is also committed to the history
updateElement_Commits(r, id, updates) ==
  LET newElements == [i \in 1 .. Len(r.elements) |->
                        IF r.elements[i].id = id THEN Spread(r.elements[i], updates)
                        ELSE r.elements[i]]
      h == addToHistory(r, newElements)
  IN  [r EXCEPT !.elements = newElements,
                !.history = h.history, !.historyIndex = h.historyIndex]

\* mutant: the element is changed in place, so every snapshot that shares it
\* changes with it
updateElement_InPlace(r, id, updates) ==
  LET upd(els) == [i \in 1 .. Len(els) |->
                     IF els[i].id = id THEN Spread(els[i], updates) ELSE els[i]]
  IN  [r EXCEPT !.elements = upd(r.elements),
                !.history = [k \in 1 .. Len(r.history) |-> upd(r.history[k])]]

updateElement(r, id, updates) ==
  [r EXCEPT !.elements =
     [i \in 1 .. Len(r.elements) |->
        IF r.elements[i].id = id THEN Spread(r.elements[i], updates)
        ELSE r.elements[i]]]

\* typeof id === 'string' ? id : selectedId
targetOf(r, id) == IF id # NoArg THEN id ELSE r.selectedId

deleteElement(r, id) ==
  LET targetId == targetOf(r, id)
      newElements == Filter(r.elements, targetId)
      h == addToHistory(r, newElements)
  IN  IF TruthyId(targetId)
      THEN [elements |-> newElements,
            selectedId |-> IF targetId = r.selectedId THEN NoSel ELSE r.selectedId,
            history |-> h.history, historyIndex |-> h.historyIndex]
      ELSE r

duplicateOf(r, id, newId) ==
  LET elementToCopy == r.elements[FindIndex(r.elements, id)]
  IN  [elementToCopy EXCEPT !.id = newId,
                            !.x = elementToCopy.x + 20,
                            !.y = elementToCopy.y + 20,
                            !.zIndex = Len(r.elements) + 1]

\* mutant: the copy is not selected
duplicateElement_NoSelect(r, id, newId) ==
  IF FindIndex(r.elements, id) # 0
  THEN LET newElement == duplicateOf(r, id, newId)
           newElements == Append(r.elements, newElement)
           h == addToHistory(r, newElements)
       IN  [elements |-> newElements, selectedId |-> r.selectedId,
            history |-> h.history, historyIndex |-> h.historyIndex]
  ELSE r

duplicateElement(r, id, newId) ==
  IF FindIndex(r.elements, id) # 0
  THEN LET newElement == duplicateOf(r, id, newId)
           newElements == Append(r.elements, newElement)
           h == addToHistory(r, newElements)
       IN  [elements |-> newElements, selectedId |-> newElement.id,
            history |-> h.history, historyIndex |-> h.historyIndex]
  ELSE r

-----------------------------------------------------------------------------
(* The state machine *)

Init ==
  /\ elements = <<>>
  /\ selectedId = NoSel
  /\ history = <<>>
  /\ historyIndex = -1
  /\ mounted = FALSE
  /\ keyElements = <<>>
  /\ nextId = 0
  /\ nOps = 0
  /\ nCommits = 0
  /\ nUpdates = 0
  /\ lastOp = "none"
  /\ captured = <<>>

\* The setters are applied and the component re-renders; the keydown effect
\* re-binds the handler when one of its dependencies changed.  React compares
\* the dependencies with Object.is: selectedId and historyIndex by value,
\* history by identity, and every setHistory call hands over a new array
\* (`pushed`: addToHistory has run), whatever its content.
Apply(s, pushed) ==
  /\ elements' = s.elements
  /\ selectedId' = s.selectedId
  /\ history' = s.history
  /\ historyIndex' = s.historyIndex
  /\ keyElements' =
       IF s.selectedId # selectedId \/ s.historyIndex # historyIndex \/ pushed
       THEN s.elements ELSE keyElements

\* Initial load effect
InitialLoad ==
  /\ ~mounted
  /\ mounted' = TRUE
  /\ IF Len(history) = 0
     THEN Apply([Render EXCEPT !.history = addToHistory(Render, <<>>).history,
                               !.historyIndex = addToHistory(Render, <<>>).historyIndex],
                TRUE)
     ELSE Apply(Render, FALSE)
  /\ lastOp' = "init"
  /\ UNCHANGED <<nextId, nOps, nCommits, nUpdates, captured>>

\* mutant: the answer of window.confirm is ignored
HandleUndoAnswer_IgnoresAnswer(confirmed) ==
  /\ mounted
  /\ IF historyIndex > 0
     THEN /\ nOps < MaxOps
          /\ Apply(handleUndo(Render), FALSE)
          /\ nOps' = nOps + 1
          /\ lastOp' = "undo"
          /\ UNCHANGED <<mounted, nextId, nCommits, nUpdates, captured>>
     ELSE /\ lastOp' = "undo at start"
          /\ UNCHANGED <<elements, selectedId, history, historyIndex, mounted,
                         keyElements, nextId, nOps, nCommits, nUpdates, captured>>

\* `confirmed` is the answer window.confirm would give; it is asked only when
\* the cursor can move and more than one snapshot exists
HandleUndoAnswer(confirmed) ==
  /\ mounted
  /\ IF historyIndex > 0
     THEN IF Len(history) > 1 /\ ~confirmed
          THEN /\ lastOp' = "undo declined"
               /\ UNCHANGED <<elements, selectedId, history, historyIndex, mounted,
                              keyElements, nextId, nOps, nCommits, nUpdates, captured>>
          ELSE /\ nOps < MaxOps
               /\ Apply(handleUndo(Render), FALSE)
               /\ nOps' = nOps + 1
               /\ lastOp' = "undo"
               /\ UNCHANGED <<mounted, nextId, nCommits, nUpdates, captured>>
     ELSE /\ lastOp' = "undo at start"
          /\ UNCHANGED <<elements, selectedId, history, historyIndex, mounted,
                         keyElements, nextId, nOps, nCommits, nUpdates, captured>>

HandleUndo == \E confirmed \in BOOLEAN : HandleUndoAnswer(confirmed)

HandleRedoAnswer(confirmed) ==
  /\ mounted
  /\ IF historyIndex < Len(history) - 1
     THEN IF Len(history) > 1 /\ ~confirmed
          THEN /\ lastOp' = "redo declined"
               /\ UNCHANGED <<elements, selectedId, history, historyIndex, mounted,
                              keyElements, nextId, nOps, nCommits, nUpdates, captured>>
          ELSE /\ nOps < MaxOps
               /\ Apply(handleRedo(Render), FALSE)
               /\ nOps' = nOps + 1
               /\ lastOp' = "redo"
               /\ UNCHANGED <<mounted, nextId, nCommits, nUpdates, captured>>
     ELSE /\ lastOp' = "redo at end"
          /\ UNCHANGED <<elements, selectedId, history, historyIndex, mounted,
                         keyElements, nextId, nOps, nCommits, nUpdates, captured>>

HandleRedo == \E confirmed \in BOOLEAN : HandleRedoAnswer(confirmed)

AddElement(type, payload) ==
  /\ mounted
  /\ nOps < MaxOps
  /\ nextId < MaxIds
  /\ \E newId \in generateId(nextId) :
       Apply(addElement(Render, newId, type, payload), TRUE)
  /\ nextId' = nextId + 1
  /\ nOps' = nOps + 1
  /\ nCommits' = nCommits + 1
  /\ lastOp' = "add"
  /\ UNCHANGED <<mounted, nUpdates, captured>>

UpdateElement(id, updates) ==
  /\ mounted
  /\ nUpdates < MaxUpdates
  /\ Apply(updateElement(Render, id, updates), FALSE)
  /\ nUpdates' = nUpdates + 1
  /\ lastOp' = "update"
  /\ UNCHANGED <<mounted, nextId, nOps, nCommits, captured>>

DeleteElement(id) ==
  /\ mounted
  /\ nOps < MaxOps
  /\ Apply(deleteElement(Render, id), TruthyId(targetOf(Render, id)))
  /\ nOps' = nOps + 1
  /\ nCommits' = IF TruthyId(targetOf(Render, id)) THEN nCommits + 1 ELSE nCommits
  /\ lastOp' = IF id = NoArg THEN "delete()" ELSE "delete(id)"
  /\ UNCHANGED <<mounted, nextId, nUpdates, captured>>

DuplicateElement(id) ==
  /\ mounted
  /\ nOps < MaxOps
  /\ FindIndex(elements, id) # 0 => nextId < MaxIds
  /\ \E newId \in generateId(nextId) :
       Apply(duplicateElement(Render, id, newId), FindIndex(elements, id) # 0)
  /\ nextId' = IF FindIndex(elements, id) # 0 THEN nextId + 1 ELSE nextId
  /\ nOps' = nOps + 1
  /\ nCommits' = IF FindIndex(elements, id) # 0 THEN nCommits + 1 ELSE nCommits
  /\ lastOp' = "duplicate"
  /\ UNCHANGED <<mounted, nUpdates, captured>>

\* Canvas onSelect={setSelectedId}: the id is stored as it comes
SetSelectedId(id) ==
  /\ mounted
  /\ nUpdates < MaxUpdates
  /\ Apply([Render EXCEPT !.selectedId = id], FALSE)
  /\ nUpdates' = nUpdates + 1
  /\ lastOp' = "select"
  /\ UNCHANGED <<mounted, nextId, nOps, nCommits, captured>>

\* keydown Delete / Backspace outside a text input, through the bound handler
KeyDelete ==
  /\ mounted
  /\ nOps < MaxOps
  /\ TruthyId(selectedId)
  /\ Apply(deleteElement(KeyRender, NoArg), TRUE)
  /\ nOps' = nOps + 1
  /\ nCommits' = nCommits + 1
  /\ lastOp' = "keydelete"
  /\ UNCHANGED <<mounted, nextId, nUpdates, captured>>

\* A caller keeps the handlers of the current render for a later call: an
\* asynchronous producer awaiting its result, or a handler that goes on to
\* call a second command in the same event.
StartAsync ==
  /\ mounted
  /\ captured = <<>>
  /\ captured' = <<Render>>
  /\ lastOp' = "capture"
  /\ UNCHANGED <<elements, selectedId, history, historyIndex, mounted,
                 keyElements, nextId, nOps, nCommits, nUpdates>>

\* the kept addElement is called: it computes from the render it closes over
AsyncAddElement(type, payload) ==
  /\ mounted
  /\ captured # <<>>
  /\ nOps < MaxOps
  /\ nextId < MaxIds
  /\ \E newId \in generateId(nextId) :
       Apply(addElement(captured[1], newId, type, payload), TRUE)
  /\ nextId' = nextId + 1
  /\ nOps' = nOps + 1
  /\ nCommits' = nCommits + 1
  /\ captured' = <<>>
  /\ lastOp' = "async add"
  /\ UNCHANGED <<mounted, nUpdates>>

\* the kept updateElement is called
AsyncUpdateElement(id, updates) ==
  /\ mounted
  /\ captured # <<>>
  /\ nUpdates < MaxUpdates
  /\ Apply(updateElement([captured[1] EXCEPT !.selectedId = selectedId,
                                              !.history = history,
                                              !.historyIndex = historyIndex],
                         id, updates),
           FALSE)
  /\ nUpdates' = nUpdates + 1
  /\ captured' = <<>>
  /\ lastOp' = "async update"
  /\ UNCHANGED <<mounted, nextId, nOps, nCommits>>

Next ==
  \/ InitialLoad
  \/ HandleUndo
  \/ HandleRedo
  \/ \E in \in AddInputs : AddElement(in[1], in[2])
  \/ \E id \in IdArgs, updates \in UpdatePayloads : UpdateElement(id, updates)
  \/ \E id \in IdArgs \cup {NoArg} : DeleteElement(id)
  \/ \E id \in IdArgs : DuplicateElement(id)
  \/ \E id \in IdArgs \cup {NoSel} : SetSelectedId(id)
  \/ KeyDelete

Spec == Init /\ [][Next]_vars

\* addElement and duplicateElement alone, over every element type and payload
NextCreate ==
  \/ InitialLoad
  \/ \E type \in ElementTypes, payload \in AddPayloads : AddElement(type, payload)
  \/ \E id \in IdArgs : DuplicateElement(id)

SpecCreate == Init /\ [][NextCreate]_vars

\* the commands with updateElement over the wide payloads
NextWide ==
  \/ InitialLoad
  \/ HandleUndo
  \/ HandleRedo
  \/ \E in \in AddInputs : AddElement(in[1], in[2])
  \/ \E id \in IdArgs, updates \in WideUpdatePayloads : UpdateElement(id, updates)
  \/ \E id \in IdArgs \cup {NoArg} : DeleteElement(id)
  \/ \E id \in IdArgs : DuplicateElement(id)

SpecWide == Init /\ [][NextWide]_vars

\* commands called through handlers kept from an earlier render
NextAsync ==
  \/ InitialLoad
  \/ \E in \in AddInputs : AddElement(in[1], in[2])
  \/ \E id \in IdArgs, updates \in UpdatePayloads : UpdateElement(id, updates)
  \/ \E id \in IdArgs \cup {NoArg} : DeleteElement(id)
  \/ StartAsync
  \/ \E in \in AddInputs : AsyncAddElement(in[1], in[2])
  \/ \E id \in IdArgs, updates \in UpdatePayloads : AsyncUpdateElement(id, updates)

SpecAsync == Init /\ [][NextAsync]_vars


-----------------------------------------------------------------------------
(* Steps named by the properties *)

core == <<elements, history, historyIndex, selectedId>>

AddStep == \E in \in AddInputs : AddElement(in[1], in[2])

UndoStep == historyIndex' # historyIndex /\ HandleUndo

RedoStep == historyIndex' # historyIndex /\ HandleRedo

\* a step of add, delete or duplicate that reaches addToHistory: nCommits
\* counts exactly these
CommitStep == nCommits' = nCommits + 1

\* a step of addElement / of a duplicateElement that found its source
Added == lastOp' = "add"
Duplicated == lastOp' = "duplicate" /\ nCommits' = nCommits + 1

Last(seq) == seq[Len(seq)]

-----------------------------------------------------------------------------
(* C1: in every state after the initial load, 0 <= historyIndex <          *)
(* history.length and the snapshot under the cursor equals the current     *)
(* element collection.  updateElement breaks the second half.              *)
C1_CursorSnapshotIsStore ==
  mounted =>
    /\ 0 <= historyIndex
    /\ historyIndex < Len(history)
    /\ history[historyIndex + 1] = elements

(* C2: a commit by add, delete or duplicate from cursor i leaves           *)
(* history[0..i] followed by the new collection, the cursor on the last    *)
(* index i + 1, and no redo; the first add from the initial state gives    *)
(* history = [[], [E1]] and index 1.                                       *)
C2_CommitTruncatesRedoTail ==
  [][CommitStep =>
       /\ history' = Append(SubSeq(history, 1, historyIndex + 1), elements')
       /\ historyIndex' = historyIndex + 1
       /\ historyIndex' = Len(history') - 1
       /\ ~canRedo(Render')
       /\ (history = << <<>> >> /\ historyIndex = 0 /\ elements = <<>> /\ AddStep
             => /\ Len(history') = 2
                /\ history'[1] = <<>>
                /\ Len(history'[2]) = 1
                /\ history'[2] = elements'
                /\ historyIndex' = 1)]_vars

\* an add made after an undo: two ids were handed out, one commit is left
C2_Witness ==
  /\ lastOp = "add"
  /\ nextId = 2
  /\ Len(history) = 2
  /\ historyIndex = 1
  /\ Len(elements) = 1

(* C3: a confirmed undo immediately followed by a confirmed redo gives     *)
(* back exactly the collection that existed before the undo.               *)
C3_UndoRedoRestoresStore ==
  [][UndoStep =>
       /\ canRedo(Render')
       /\ handleRedo(Render').elements = elements]_vars

(* C4: after N committing operations (add, delete, duplicate, undo, redo,  *)
(* any arguments) the history length is N + 1.                             *)
C4_LengthIsOpsPlusOne ==
  mounted => Len(history) = nOps + 1

(* C4 as amended: after N operations each of which is an add, a delete     *)
(* with a non-empty target id, or a duplicate of an id in the store, the   *)
(* history length is N + 1.                                                *)
C4_LengthIsCommitsPlusOne ==
  (mounted /\ nCommits = nOps) => Len(history) = nOps + 1

C4_Witness ==
  /\ nOps = 3
  /\ nCommits = 3
  /\ lastOp = "duplicate"
  /\ Len(history) = 4

(* C5: the selection is null or the id of an element of the current        *)
(* collection.                                                             *)
C5_SelectionInStore ==
  selectedId = NoSel \/ selectedId \in Ids(elements)

(* C6: deleteElement(id) with id the selected id, and deleteElement()      *)
(* with a selection, clear the selection and leave no element with that    *)
(* id in the store.  A selected element whose id is the empty string       *)
(* breaks it: the handlers test the target for truthiness.                 *)
C6_DeleteSelectedClearsSelection ==
  [][/\ \A id \in IdArgs \cup {NoArg} :
          (DeleteElement(id) /\ selectedId # NoSel /\ targetOf(Render, id) = selectedId)
            => /\ selectedId' = NoSel
               /\ selectedId \notin Ids(elements')
               /\ Ids(elements') = Ids(elements) \ {selectedId}
     /\ KeyDelete
          => /\ selectedId' = NoSel
             /\ selectedId \notin Ids(elements')]_vars

(* C7: duplicateElement(s) of an element in the store appends a copy that  *)
(* equals the source except for a fresh id, x + 20, y + 20 and zIndex, and *)
(* the copy's zIndex is strictly greater than every other zIndex.          *)
C7_DuplicateOnTop ==
  [][\A s \in IdArgs :
       (DuplicateElement(s) /\ s \in Ids(elements))
         => LET src == elements[FindIndex(elements, s)]
                copy == Last(elements')
            IN  /\ Len(elements') = Len(elements) + 1
                /\ \A f \in Fields \ {"id", "x", "y", "zIndex"} : copy[f] = src[f]
                /\ copy.id \notin Ids(elements)
                /\ copy.x = src.x + 20
                /\ copy.y = src.y + 20
                /\ \A i \in 1 .. Len(elements) : elements[i].zIndex < copy.zIndex]_vars

(* C8: addElement gives a text element without a color the default color,  *)
(* a shape without a backgroundColor the default one and a shape without   *)
(* a shapeType rectangle; a color, backgroundColor or shapeType of the     *)
(* payload appears unchanged in the created element.                       *)
C8_AddDefaultsKeepPayload ==
  [][\A type \in ElementTypes, payload \in AddPayloads :
       AddElement(type, payload)
         => LET e == Last(elements')
            IN  /\ (type = TEXT /\ ~Has(payload, "color")) => e.color = DefaultColor
                /\ (type = SHAPE /\ ~Has(payload, "backgroundColor"))
                     => e.backgroundColor = DefaultBackground
                /\ (type = SHAPE /\ ~Has(payload, "shapeType")) => e.shapeType = RECTANGLE
                /\ \A f \in {"color", "backgroundColor", "shapeType"} :
                     Has(payload, f) => e[f] = payload[f]]_vars

(* C9: updateElement, deleteElement and duplicateElement with an id that   *)
(* is not in the store change neither the collection, the history, the     *)
(* cursor nor the selection.                                               *)
C9_UnknownIdIsNoOp ==
  [][\A id \in IdArgs :
       id \notin Ids(elements)
         => /\ \A updates \in UpdatePayloads :
                 UpdateElement(id, updates) => UNCHANGED core
            /\ DeleteElement(id) => UNCHANGED core
            /\ DuplicateElement(id) => UNCHANGED core]_vars

(* C10: a confirmed undo from cursor i > 0 moves the cursor to i - 1 and   *)
(* makes the collection history[i - 1]; a confirmed redo from cursor       *)
(* i < length - 1 moves it to i + 1 and makes the collection               *)
(* history[i + 1]; the history sequence is unchanged by both.              *)
C10_UndoRedoMoveCursor ==
  [][/\ UndoStep
          => /\ historyIndex > 0
             /\ historyIndex' = historyIndex - 1
             /\ elements' = history[(historyIndex - 1) + 1]
             /\ history' = history
     /\ RedoStep
          => /\ historyIndex < Len(history) - 1
             /\ historyIndex' = historyIndex + 1
             /\ elements' = history[(historyIndex + 1) + 1]
             /\ history' = history]_vars

\* add, undo, redo: the redo has put the added element back
C10_Witness ==
  /\ lastOp = "redo"
  /\ nOps = 3
  /\ Len(history) = 2
  /\ historyIndex = 1
  /\ Len(elements) = 1

(* C11: undo at cursor 0 and redo at the last index change nothing;        *)
(* canUndo holds exactly when the cursor is above 0 and canRedo exactly    *)
(* when it is below the last index, and undo / redo act only then; after   *)
(* undoing the only add the store is empty, the cursor 0 and canUndo       *)
(* false.                                                                  *)
C11_BoundaryNoOps ==
  [][/\ (HandleUndo /\ historyIndex = 0) => UNCHANGED core
     /\ (HandleRedo /\ historyIndex = Len(history) - 1) => UNCHANGED core
     /\ (canUndo(Render) <=> (historyIndex > 0))
     /\ (canRedo(Render) <=> (historyIndex < Len(history) - 1))
     /\ (HandleUndo /\ ~canUndo(Render)) => UNCHANGED core
     /\ (HandleRedo /\ ~canRedo(Render)) => UNCHANGED core
     /\ UndoStep => canUndo(Render)
     /\ RedoStep => canRedo(Render)
     /\ (UndoStep /\ nOps = 1 /\ nCommits = 1 /\ nextId = 1 /\ Len(history) = 2)
          => /\ elements' = <<>>
             /\ historyIndex' = 0
             /\ ~canUndo(Render')]_vars

\* the only add was undone and undo was asked for once more
C11_Witness ==
  /\ lastOp = "undo at start"
  /\ nOps = 2
  /\ nextId = 1
  /\ historyIndex = 0
  /\ Len(history) = 2
  /\ elements = <<>>
  /\ ~canUndo(Render)
  /\ canRedo(Render)

(* C12: when the confirmation of an undo or redo is declined, the          *)
(* collection, the history, the cursor and the selection stay as they      *)
(* were: the state changes only after a positive answer.                   *)
C12_DeclinedChangesNothing ==
  [][/\ (HandleUndoAnswer(FALSE) /\ Len(history) > 1) => UNCHANGED core
     /\ (HandleRedoAnswer(FALSE) /\ Len(history) > 1) => UNCHANGED core
     /\ (lastOp' \in {"undo declined", "redo declined"})
          => (Len(history) > 1 /\ UNCHANGED core)]_vars

\* an undo of the only add was declined
C12_Witness ==
  /\ lastOp = "undo declined"
  /\ Len(history) = 2
  /\ historyIndex = 1
  /\ Len(elements) = 1

(* C13: no two elements of the current collection have the same id, also   *)
(* after updateElement calls whose fields carry an id.  Neither            *)
(* updateElement nor generateId keeps it.                                  *)
C13_IdsUnique ==
  \A i, j \in 1 .. Len(elements) :
     elements[i].id = elements[j].id => i = j

(* C14: an element keeps the type it was created with: no step changes     *)
(* the type found under an id that is in the store before and after it.    *)
C14_TypeNeverChanges ==
  [][\A i \in 1 .. Len(elements), j \in 1 .. Len(elements') :
       elements[i].id = elements'[j].id => elements'[j].type = elements[i].type]_vars

(* C15: updateElement(id, fields) on an id in the store overlays the       *)
(* given fields on the element with that id and leaves every other         *)
(* element, the order, the history, the cursor and the selection           *)
(* unchanged.                                                              *)
C15_UpdateIsTransient ==
  [][lastOp' = "update"
       => \A id \in Ids(elements), updates \in WideUpdatePayloads :
            UpdateElement(id, updates)
              => /\ Len(elements') = Len(elements)
                 /\ \A i \in 1 .. Len(elements) :
                      IF elements[i].id = id
                      THEN \A f \in Fields :
                             elements'[i][f] = IF Has(updates, f) THEN updates[f]
                                               ELSE elements[i][f]
                      ELSE elements'[i] = elements[i]
                 /\ UNCHANGED <<history, historyIndex, selectedId>>]_vars

\* the second of two elements was moved after both were committed
C15_Witness ==
  /\ lastOp = "update"
  /\ Len(elements) = 2
  /\ elements[1].x = 200
  /\ elements[2].x = 250
  /\ history[historyIndex + 1][2].x = 200
  /\ Len(history) = 3

(* C16: a snapshot committed at history position k keeps its content in    *)
(* every later state, as long as position k is not cut off by a commit     *)
(* made from a cursor below k.                                             *)
C16_SnapshotsImmutable ==
  [][\A k \in 1 .. Len(history) :
       (k <= historyIndex + 1 \/ ~CommitStep)
         => /\ k <= Len(history')
            /\ history'[k] = history[k]]_vars

\* an update has moved the store away from the snapshot under the cursor
C16_Witness ==
  /\ lastOp = "update"
  /\ Len(history) >= 2
  /\ Len(elements) >= 1
  /\ history[historyIndex + 1] # elements

(* C17: after addElement, and after duplicateElement of an id in the       *)
(* store, the selection is the id of the new element, the new element is   *)
(* the last of the collection and the earlier elements are unchanged and   *)
(* in the same order.                                                      *)
C17_NewElementSelectedLast ==
  [][(Added \/ Duplicated)
       => /\ Len(elements') = Len(elements) + 1
          /\ SubSeq(elements', 1, Len(elements)) = elements
          /\ selectedId' = Last(elements').id]_vars

\* a text element was duplicated; the copy got an id of its own
C17_Witness ==
  /\ lastOp = "duplicate"
  /\ Len(elements) = 2
  /\ elements[1].type = TEXT
  /\ elements[2].x = elements[1].x + 20
  /\ elements[2].type = elements[1].type
  /\ elements[2].id # elements[1].id
  /\ selectedId = elements[2].id

(* C18: a command called after another one is computed from the state the  *)
(* first one left, also when its handler was created before the first one  *)
(* ran: the store and the history keep the effects of both.                *)
C18_NoLostEffects ==
  [][/\ \A in \in AddInputs :
          AsyncAddElement(in[1], in[2])
            => /\ Len(elements') = Len(elements) + 1
               /\ SubSeq(elements', 1, Len(elements)) = elements
               /\ history' = Append(SubSeq(history, 1, historyIndex + 1), elements')
     /\ \A id \in IdArgs, updates \in UpdatePayloads :
          AsyncUpdateElement(id, updates)
            => elements' = updateElement(Render, id, updates).elements]_vars

(* C19: a Delete / Backspace key press with a selection leaves the store   *)
(* as it was at the key press minus the selected element.                  *)
C19_KeyDeleteUsesCurrentStore ==
  [][KeyDelete => elements' = Filter(elements, selectedId)]_vars

RECURSIVE UndoTimes(_, _)
UndoTimes(r, n) == IF n = 0 THEN r ELSE UndoTimes(handleUndo(r), n - 1)

(* C20: after the initial load history[0] is the empty collection in       *)
(* every state, so from cursor i, i confirmed undos end at cursor 0 with   *)
(* an empty collection and canUndo false.                                  *)
C20_FirstSnapshotEmpty ==
  mounted =>
    /\ history[1] = <<>>
    /\ LET r == UndoTimes(Render, historyIndex)
       IN  /\ r.historyIndex = 0
           /\ r.elements = <<>>
           /\ ~canUndo(r)

\* two undos away from the empty collection
C20_Witness ==
  /\ mounted
  /\ historyIndex = 2
  /\ Len(elements) = 2
  /\ Len(history) = 3

====
